---------------------------- MODULE Spec2Model ----------------------------
(***************************************************************************)
(* A state-machine model of the VoxelGame application host                 *)
(* (src/src/main.rs, src/src/window.rs): the App struct with its optional  *)
(* resources, the winit callbacks resumed and window_event, and the        *)
(* helpers input, resize, update and render.                               *)
(*                                                                         *)
(* The camera module (mod camera, main.rs:15) is not among the source      *)
(* files; Camera, CameraUniform and CameraController are modelled from     *)
(* the written specification (sections 3, 4.1, 4.2).                       *)
(*                                                                         *)
(* Lengths are in hundredths of a world unit, so 0.2 is 20 and the         *)
(* initial eye (0.0, 1.0, 1.3) is <<0, 100, 130>>.                         *)
(***************************************************************************)
EXTENDS Integers, Sequences, FiniteSets, TLC

VARIABLES
    app,              \* the App struct (main.rs:92-117)
    exit_requested,   \* the event loop's exit flag, set by event_loop.exit()
    redraw_requested, \* a redraw is pending on the window (request_redraw)
    panicked,         \* a callback panicked (unwrap on None, fatal wgpu error)
    fx,               \* what the last callback did (observation only)
    key_state         \* per movement key: its most recent event for the
                      \* application's window was a press (observation only)

vars == <<app, exit_requested, redraw_requested, panicked, fx, key_state>>

----------------------------------------------------------------------------
(* Bounds of the model *)

\* most net Speed-length steps the eye may recede behind its initial distance
MaxBack == 1
\* most strafe moves recorded in the eye's orbit history
MaxStrafes == 2

----------------------------------------------------------------------------
(* Option<T> *)

None == <<>>
Some(v) == <<v>>
unwrap(o) == o[1]
is_some(o) == o # None

----------------------------------------------------------------------------
(* Inputs of the environment *)

Widths == {0, 600, 720}
Heights == {0, 600}
\* PhysicalSize<u32> values a Resized event may carry
Sizes == {<<w, h>> : w \in Widths, h \in Heights}

MovementKeys == {"Forward", "Backward", "Left", "Right"}
KeyCodes == MovementKeys \cup {"Escape", "Space"}
ElementStates == {"Pressed", "Released"}

Event(type, key, state, size) ==
    [type |-> type, key |-> key, state |-> state, size |-> size]
CloseRequestedEv == Event("CloseRequested", "-", "-", <<0, 0>>)
KeyboardInputEv(k, s) == Event("KeyboardInput", k, s, <<0, 0>>)
ResizedEv(sz) == Event("Resized", "-", "-", sz)
RedrawRequestedEv == Event("RedrawRequested", "-", "-", <<0, 0>>)
\* any WindowEvent the host has no arm for (focus, cursor, ...)
FocusedEv == Event("Focused", "-", "-", <<0, 0>>)

\* events delivered with the id of some other window
OtherWindowEvents ==
    {CloseRequestedEv, RedrawRequestedEv, ResizedEv(<<600, 600>>),
     KeyboardInputEv("Escape", "Pressed"), KeyboardInputEv("Forward", "Pressed")}

\* outcomes of Surface::get_current_texture
SurfaceErrors == {"Lost", "Outdated", "OutOfMemory", "Timeout"}

\* the resumed callback, recorded like an event
ResumedEv == Event("Resumed", "-", "-", <<0, 0>>)

\* the platform calls of resumed that can fail, each followed by an unwrap
\* or an index [0] that panics: create_window (window.rs:25),
\* create_surface (main.rs:249), request_adapter (:259), request_device
\* (:273), the surface capabilities' formats, present_modes and alpha_modes
\* (:282-289), Texture::from_bytes (:302)
StartupFailures ==
    {"create_window", "create_surface", "request_adapter", "request_device",
     "get_capabilities", "Texture_from_bytes"}
\* how the platform answers resumed: every call succeeds, or one fails
StartupOutcomes == {"Ok"} \cup StartupFailures


----------------------------------------------------------------------------
(* Camera, CameraUniform and CameraController (mod camera; modelled from   *)
(* the specification, sections 3, 4.1 and 4.2)                             *)

(* CameraController::new(0.2): the movement speed, 0.2 world units. *)
Speed == 20

Dot(u, v) == u[1] * v[1] + u[2] * v[2] + u[3] * v[3]
Sub(u, v) == <<u[1] - v[1], u[2] - v[2], u[3] - v[3]>>

(* The eye.  update moves the eye only along the line through it and the   *)
(* target (forward, backward: the distance changes by Speed, the direction *)
(* is kept) and around the target (strafe: the direction changes, the      *)
(* distance is kept).  The eye is therefore held as                        *)
(*   start   the eye as constructed,                                       *)
(*   toward  the net number of Speed-length moves made toward the target,  *)
(*   orbit   the strafe moves made, in order (1 right, -1 left),           *)
(* and stands for the point at distance |target - start| - toward * Speed  *)
(* from the target, in the direction start has after the orbit moves.      *)
Eye(start) == [start |-> start, toward |-> 0, orbit |-> << >>]

(* forward_len = length(target - eye) compared with a length c, exactly:   *)
(* sqrt(r2) - toward * Speed > c, with r2 = |target - start|^2.            *)
ForwardLenGT(camera, c) ==
    LET forward == Sub(camera.target, camera.eye.start)
        r2 == Dot(forward, forward)
        t == c + camera.eye.toward * Speed
    IN  IF t < 0 THEN TRUE ELSE r2 > t * t

(* length(target - eye) = c *)
ForwardLenEQ(camera, c) ==
    LET forward == Sub(camera.target, camera.eye.start)
        r2 == Dot(forward, forward)
        t == c + camera.eye.toward * Speed
    IN  t >= 0 /\ r2 = t * t

(* eye += forward_dir * speed *)
move_forward(eye) == [eye EXCEPT !.toward = @ + 1]
(* eye -= forward_dir * speed *)
move_backward(eye) == [eye EXCEPT !.toward = @ - 1]
(* eye = target - normalize(forward' + right * signed_speed) * forward_len' *)
strafe(eye, sign) == [eye EXCEPT !.orbit = Append(@, sign)]

(* CameraController::new(speed): all flags clear. *)
CameraController_new ==
    [forward |-> FALSE, backward |-> FALSE, left |-> FALSE, right |-> FALSE]

FlagOf(key) ==
    CASE key = "Forward" -> "forward"
      [] key = "Backward" -> "backward"
      [] key = "Left" -> "left"
      [] key = "Right" -> "right"

(* CameraController::process_events (handle_input): press and release of   *)
(* the four movement keys set and clear the flag and are consumed; every   *)
(* other event is not consumed.                                            *)
process_events(controller, event) ==
    IF event.type = "KeyboardInput" /\ event.key \in MovementKeys
    THEN [controller |->
              [controller EXCEPT ![FlagOf(event.key)] = (event.state = "Pressed")],
          consumed |-> TRUE]
    ELSE [controller |-> controller, consumed |-> FALSE]

(* A forward step without the clamp. *)
forward_step_unclamped(controller, camera) ==
    IF controller.forward
    THEN [camera EXCEPT !.eye = move_forward(@)]
    ELSE camera

(* The forward step of update: moves only if forward_len > speed. *)
forward_step(controller, camera) ==
    IF controller.forward /\ ForwardLenGT(camera, Speed)
    THEN [camera EXCEPT !.eye = move_forward(@)]
    ELSE camera

(* The backward step of update: no guard. *)
backward_step(controller, camera) ==
    IF controller.backward
    THEN [camera EXCEPT !.eye = move_backward(@)]
    ELSE camera

(* The strafe step of update, made after the forward/backward steps: the   *)
(* right flag strafes with +speed, the left flag with -speed; with both    *)
(* set both adjustments are made.                                          *)
strafe_step(controller, camera) ==
    LET c1 == IF controller.right
              THEN [camera EXCEPT !.eye = strafe(@, 1)]
              ELSE camera
    IN  IF controller.left
        THEN [c1 EXCEPT !.eye = strafe(@, -1)]
        ELSE c1

(* CameraController::update_camera(&self, camera): takes the controller by *)
(* shared reference, so only the camera changes.                           *)
update_camera(controller, camera) ==
    strafe_step(controller,
        backward_step(controller,
            forward_step(controller, camera)))

(* Camera::build_view_projection_matrix: projection * view, a function of  *)
(* eye, target, up, aspect, fov, near, far; up, fov, near and far never    *)
(* change, so the matrix is held as the values it was computed from.       *)
build_view_projection_matrix(camera) ==
    [eye |-> camera.eye, target |-> camera.target, aspect |-> camera.aspect]

(* CameraUniform::new(): the identity matrix (no eye it was computed from).*)
CameraUniform_new ==
    [view_proj |-> [eye |-> Eye(<<0, 0, 0>>), target |-> <<0, 0, 0>>,
                    aspect |-> <<1, 1>>]]

(* CameraUniform::update_view_proj(&mut self, camera) *)
update_view_proj(camera_uniform, camera) ==
    [camera_uniform EXCEPT !.view_proj = build_view_projection_matrix(camera)]

----------------------------------------------------------------------------
(* The application host: struct App and its methods (src/src/main.rs)      *)

(* App::init: every optional field is None.  device, queue,                *)
(* render_pipeline, camera_bind_group, vertex_buffer, num_vertices,        *)
(* index_buffer, num_indices, diffuse_bind_group and diffuse_texture are   *)
(* set together and never read for their contents: one field, resources.   *)
App_init ==
    [surface |-> None, config |-> None, camera |-> None,
     camera_uniform |-> None, camera_buffer |-> None,
     camera_controller |-> None, resources |-> None, window |-> None]

(* What a callback did, cleared when the next one starts. *)
NoFx ==
    [event |-> FocusedEv, own |-> FALSE, consumed |-> FALSE,
     configured |-> None, render |-> "-", drawn |-> None,
     redraw |-> FALSE, exit |-> FALSE]

(* The state a callback works on. *)
World(a, e, r, p) ==
    [app |-> a, exit_requested |-> e, redraw_requested |-> r,
     panicked |-> p, fx |-> NoFx]

(* a panic: unwrap on None or on Err, an index out of range, or a fatal   *)
(* error raised by wgpu *)
panic(w) == [w EXCEPT !.panicked = TRUE]

(* Window::build(title, size, event_loop) (window.rs:17-27); create_window *)
(* is the result of event_loop.create_window, "Ok" or "Err": the unwrap at *)
(* window.rs:25 panics on Err and no window is built.                      *)
Window_build(size, create_window) ==
    IF create_window = "Ok"
    THEN [panicked |-> FALSE, window |-> Some([size |-> size])]
    ELSE [panicked |-> TRUE, window |-> None]

(* The window size resumed asks for (main.rs:240). *)
InitialSize == <<720, 600>>

(* config.width as f32 / config.height as f32, held as the pair it is the  *)
(* quotient of; two aspects are the same f32 when the quotients are equal  *)
(* (the sizes used are far below 2^24, so the casts are exact and distinct *)
(* quotients stay distinct).                                               *)
Aspect(config) == <<config.width, config.height>>
SameAspect(p, q) == p[1] * q[2] = q[1] * p[2]

(* A camera constructed with the eye on the target. *)
InitialCamera_at_target(config) ==
    [eye |-> Eye(<<0, 0, 0>>), target |-> <<0, 0, 0>>,
     aspect |-> Aspect(config)]

(* let camera = camera::Camera { eye: (0.0, 1.0, 1.3), target: (0, 0, 0),  *)
(* aspect: config.width as f32 / config.height as f32, .. }                *)
InitialCamera(config) ==
    [eye |-> Eye(<<0, 100, 130>>), target |-> <<0, 0, 0>>,
     aspect |-> Aspect(config)]

(* App::input *)
input(w, event) ==
    IF ~is_some(w.app.camera_controller)
    THEN [world |-> panic(w), consumed |-> FALSE]
    ELSE LET r == process_events(unwrap(w.app.camera_controller), event)
         IN  [world |-> [w EXCEPT !.app.camera_controller = Some(r.controller),
                                  !.fx.consumed = r.consumed],
              consumed |-> r.consumed]

(* A resize guard that lets a size through when either dimension is > 0. *)
resize_accepts_either(new_size) == new_size[1] > 0 \/ new_size[2] > 0

(* The guard of App::resize (main.rs:154). *)
resize_accepts(new_size) == new_size[1] > 0 /\ new_size[2] > 0

(* A resize that stores the size in the window but not in the             *)
(* configuration.                                                          *)
resize_window_only(w, new_size) ==
    IF resize_accepts(new_size)
    THEN IF ~is_some(w.app.window)
         THEN panic(w)
         ELSE IF is_some(w.app.surface)
              THEN IF ~is_some(w.app.resources) \/ ~is_some(w.app.config)
                   THEN panic([w EXCEPT !.app.window = Some([size |-> new_size])])
                   ELSE [w EXCEPT !.app.window = Some([size |-> new_size]),
                                  !.app.surface = Some([configured |-> w.app.config]),
                                  !.fx.configured = w.app.config]
              ELSE [w EXCEPT !.app.window = Some([size |-> new_size])]
    ELSE w

(* App::resize *)
resize(w, new_size) ==
    IF resize_accepts(new_size)
    THEN IF ~is_some(w.app.window)
         THEN panic(w)
         ELSE LET config == IF is_some(w.app.config)
                            THEN Some([width |-> new_size[1], height |-> new_size[2]])
                            ELSE w.app.config
              IN  IF is_some(w.app.surface)
                  THEN IF ~is_some(w.app.resources) \/ ~is_some(config)
                       THEN panic([w EXCEPT !.app.window = Some([size |-> new_size]),
                                            !.app.config = config])
                       ELSE [w EXCEPT !.app.window = Some([size |-> new_size]),
                                      !.app.config = config,
                                      !.app.surface = Some([configured |-> config]),
                                      !.fx.configured = config]
                  ELSE [w EXCEPT !.app.window = Some([size |-> new_size]),
                                 !.app.config = config]
    ELSE w

(* An update that writes the buffer before it recomputes the uniform. *)
update_stale_upload(w) ==
    IF ~is_some(w.app.camera_controller) \/ ~is_some(w.app.camera)
    THEN panic(w)
    ELSE LET camera == update_camera(unwrap(w.app.camera_controller),
                                     unwrap(w.app.camera))
             w1 == [w EXCEPT !.app.camera = Some(camera)]
         IN  IF \/ ~is_some(w1.app.resources) \/ ~is_some(w1.app.camera_buffer)
                \/ ~is_some(w1.app.camera_uniform)
             THEN panic(w1)
             ELSE LET w2 == [w1 EXCEPT !.app.camera_buffer =
                                Some([contents |-> unwrap(w1.app.camera_uniform)])]
                      camera_uniform ==
                          update_view_proj(unwrap(w2.app.camera_uniform), camera)
                  IN  [w2 EXCEPT !.app.camera_uniform = Some(camera_uniform)]

(* An update that clears the controller's flags once they are applied. *)
update_clears_flags(w) ==
    IF ~is_some(w.app.camera_controller) \/ ~is_some(w.app.camera)
    THEN panic(w)
    ELSE LET camera == update_camera(unwrap(w.app.camera_controller),
                                     unwrap(w.app.camera))
             w1 == [w EXCEPT !.app.camera = Some(camera),
                             !.app.camera_controller = Some(CameraController_new)]
         IN  IF ~is_some(w1.app.camera_uniform)
             THEN panic(w1)
             ELSE LET camera_uniform ==
                          update_view_proj(unwrap(w1.app.camera_uniform), camera)
                      w2 == [w1 EXCEPT !.app.camera_uniform = Some(camera_uniform)]
                  IN  IF ~is_some(w2.app.resources) \/ ~is_some(w2.app.camera_buffer)
                      THEN panic(w2)
                      ELSE [w2 EXCEPT !.app.camera_buffer =
                                          Some([contents |-> camera_uniform])]

(* App::update: three statements, each unwrapping its fields as it runs,  *)
(* so a panic keeps what the statements before it wrote:                   *)
(*   controller.update_camera(camera)              (main.rs:172)           *)
(*   camera_uniform.update_view_proj(camera)       (main.rs:173)           *)
(*   queue.write_buffer(camera_buffer, uniform)    (main.rs:174-178)       *)
update(w) ==
    IF ~is_some(w.app.camera_controller) \/ ~is_some(w.app.camera)
    THEN panic(w)
    ELSE LET camera == update_camera(unwrap(w.app.camera_controller),
                                     unwrap(w.app.camera))
             w1 == [w EXCEPT !.app.camera = Some(camera)]
         IN  IF ~is_some(w1.app.camera_uniform)
             THEN panic(w1)
             ELSE LET camera_uniform ==
                          update_view_proj(unwrap(w1.app.camera_uniform), camera)
                      w2 == [w1 EXCEPT !.app.camera_uniform = Some(camera_uniform)]
                  IN  IF ~is_some(w2.app.resources) \/ ~is_some(w2.app.camera_buffer)
                      THEN panic(w2)
                      ELSE [w2 EXCEPT !.app.camera_buffer =
                                          Some([contents |-> camera_uniform])]

(* App::render; texture is the outcome of surface.get_current_texture():   *)
(* "Ok" or one of SurfaceErrors, or "Panic" when wgpu raises a fatal       *)
(* error.  On Ok one indexed draw is recorded, submitted and presented.    *)
render(w, texture) ==
    IF ~is_some(w.app.surface)
    THEN [world |-> panic(w), result |-> "Panic"]
    ELSE IF texture = "Panic"
    THEN [world |-> panic([w EXCEPT !.fx.render = texture]), result |-> texture]
    ELSE IF texture # "Ok"
    THEN [world |-> [w EXCEPT !.fx.render = texture], result |-> texture]
    ELSE IF ~is_some(w.app.resources)
    THEN [world |-> panic(w), result |-> "Panic"]
    ELSE [world |-> [w EXCEPT !.fx.render = "Ok",
                              !.fx.drawn = w.app.camera_buffer],
          result |-> "Ok"]

(* event_loop.exit() *)
exit(w) == [w EXCEPT !.exit_requested = TRUE, !.fx.exit = TRUE]

(* window.core_window.request_redraw() *)
request_redraw(w) == [w EXCEPT !.redraw_requested = TRUE, !.fx.redraw = TRUE]

(* The match with the Lost/Outdated arm doing nothing, like Timeout. *)
on_render_no_recovery(w, result) ==
    CASE result = "Ok" -> w
      [] result \in {"Lost", "Outdated"} -> w
      [] result = "OutOfMemory" -> exit(w)
      [] result = "Timeout" -> w

(* The match with the Timeout arm exiting the loop. *)
on_render_timeout_fatal(w, result) ==
    CASE result = "Ok" -> w
      [] result \in {"Lost", "Outdated"} -> resize(w, unwrap(w.app.window).size)
      [] result = "OutOfMemory" -> exit(w)
      [] result = "Timeout" -> exit(w)

(* The match on the result of render (main.rs:516-531). *)
on_render(w, result) ==
    CASE result = "Ok" -> w
      [] result \in {"Lost", "Outdated"} -> resize(w, unwrap(w.app.window).size)
      [] result = "OutOfMemory" -> exit(w)
      [] result = "Timeout" -> w

(* The RedrawRequested arm of window_event (main.rs:512-532). *)
redraw(w, texture) ==
    LET w1 == request_redraw(w)
        w2 == update(w1)
        r == render(w2, texture)
    IN  IF w2.panicked THEN w2
        ELSE IF r.world.panicked THEN r.world
        ELSE on_render(r.world, r.result)

(* The arms of window_event for an event the controller did not consume    *)
(* (main.rs:495-535).                                                      *)
dispatch(w, event, texture) ==
    CASE \/ event.type = "CloseRequested"
         \/ /\ event.type = "KeyboardInput"
            /\ event.state = "Pressed"
            /\ event.key = "Escape" -> exit(w)
      [] event.type = "Resized" -> resize(w, event.size)
      [] event.type = "RedrawRequested" -> redraw(w, texture)
      [] OTHER -> w

(* A guard that hands the host the events the controller consumed. *)
host_handles_consumed(consumed) == consumed

(* The guard `if !self.input(&event)` (main.rs:494). *)
host_handles(consumed) == ~consumed

(* App::window_event; own says whether window_id is the id of the          *)
(* application's window.                                                   *)
window_event(w, own, event, texture) ==
    LET w0 == [w EXCEPT !.fx.event = event, !.fx.own = own]
    IN  IF ~is_some(w0.app.window) THEN panic(w0)
        ELSE IF ~own THEN w0
        ELSE LET i == input(w0, event)
             IN  IF i.world.panicked \/ ~host_handles(i.consumed)
                 THEN i.world
                 ELSE dispatch(i.world, event, texture)

(* ApplicationHandler::resumed: builds the window and every resource in    *)
(* locals and assigns the fields together at the end (main.rs:468-484).    *)
(* startup is the platform's answer: when one of its calls fails the       *)
(* callback panics before any field is assigned.  The surface is created   *)
(* but not configured here.  Assigning self.window drops the window held   *)
(* before, and with it the redraw requested on it; resumed requests none   *)
(* on the window it builds.                                                *)
resumed(w, startup) ==
    LET w0 == [w EXCEPT !.fx.event = ResumedEv]
        built == Window_build(InitialSize,
                              IF startup = "create_window" THEN "Err" ELSE "Ok")
    IN  IF built.panicked \/ startup \in StartupFailures
        THEN panic(w0)
        ELSE LET window == unwrap(built.window)
                 config == [width |-> window.size[1], height |-> window.size[2]]
                 camera == InitialCamera(config)
                 camera_uniform == update_view_proj(CameraUniform_new, camera)
             IN  [w0 EXCEPT !.redraw_requested = FALSE,
                            !.app =
                     [surface |-> Some([configured |-> None]),
                      config |-> Some(config),
                      camera |-> Some(camera),
                      camera_uniform |-> Some(camera_uniform),
                      camera_buffer |-> Some([contents |-> camera_uniform]),
                      camera_controller |-> Some(CameraController_new),
                      resources |-> Some("ready"),
                      window |-> Some(window)]]

----------------------------------------------------------------------------
(* The event loop: event_loop.run_app(&mut app) (main.rs:547-556)          *)

(* Callbacks are delivered one at a time until run_app returns or a        *)
(* callback panics, which ends the process.  event_loop.exit() only        *)
(* records the request: the loop returns once it has delivered the         *)
(* callbacks it still holds, how many is the platform's choice, and no     *)
(* handler of the program tests the request (ActiveEventLoop::exiting), so *)
(* a callback delivered after it runs in full.                             *)
Running == ~panicked

(* Window events exist only once resumed has built the window. *)
Delivering == Running /\ is_some(app.window)

Here == World(app, exit_requested, redraw_requested, panicked)

Becomes(w) ==
    /\ app' = w.app
    /\ exit_requested' = w.exit_requested
    /\ redraw_requested' = w.redraw_requested
    /\ panicked' = w.panicked
    /\ fx' = w.fx

(* The outcomes of get_current_texture: a surface that was never           *)
(* configured yields no texture (an error, or a fatal error raised by      *)
(* wgpu); a configured one yields a texture or an error.                   *)
TextureOutcomes(a) ==
    IF is_some(a.surface) /\ is_some(unwrap(a.surface).configured)
    THEN {"Ok"} \cup SurfaceErrors
    ELSE {"Panic"} \cup SurfaceErrors

(* The eye stays within the bounds of the model. *)
WithinBounds(w) ==
    is_some(w.app.camera) =>
        LET eye == unwrap(w.app.camera).eye
        IN  eye.toward >= -MaxBack /\ Len(eye.orbit) <= MaxStrafes

Init ==
    /\ app = App_init
    /\ exit_requested = FALSE
    /\ redraw_requested = FALSE
    /\ panicked = FALSE
    /\ fx = NoFx
    /\ key_state = [k \in MovementKeys |-> FALSE]

Resumed ==
    /\ Running
    /\ ~is_some(app.window)
    /\ \E startup \in StartupOutcomes : Becomes(resumed(Here, startup))
    /\ UNCHANGED key_state

CloseRequested ==
    /\ Delivering
    /\ Becomes(window_event(Here, TRUE, CloseRequestedEv, "Ok"))
    /\ UNCHANGED key_state

KeyboardInput ==
    /\ Delivering
    /\ \E k \in KeyCodes, s \in ElementStates :
        /\ Becomes(window_event(Here, TRUE, KeyboardInputEv(k, s), "Ok"))
        /\ key_state' = IF k \in MovementKeys
                        THEN [key_state EXCEPT ![k] = (s = "Pressed")]
                        ELSE key_state

Resized ==
    /\ Delivering
    /\ \E sz \in Sizes :
        Becomes(window_event(Here, TRUE, ResizedEv(sz), "Ok"))
    /\ UNCHANGED key_state

RedrawRequested ==
    /\ Delivering
    /\ \E texture \in TextureOutcomes(app) :
        LET w == window_event([Here EXCEPT !.redraw_requested = FALSE],
                              TRUE, RedrawRequestedEv, texture)
        IN  WithinBounds(w) /\ Becomes(w)
    /\ UNCHANGED key_state

Focused ==
    /\ Delivering
    /\ Becomes(window_event(Here, TRUE, FocusedEv, "Ok"))
    /\ UNCHANGED key_state

(* An event whose window_id is not the id of the application's window. *)
OtherWindow ==
    /\ Delivering
    /\ \E event \in OtherWindowEvents :
        Becomes(window_event(Here, FALSE, event, "Ok"))
    /\ UNCHANGED key_state

Next ==
    \/ Resumed
    \/ CloseRequested
    \/ KeyboardInput
    \/ Resized
    \/ RedrawRequested
    \/ Focused
    \/ OtherWindow

Spec == Init /\ [][Next]_vars

----------------------------------------------------------------------------
(* The event loop when it resumes the application more than once: winit    *)
(* calls resumed at startup and again whenever the platform resumes the    *)
(* application; App::resumed has no guard and runs in full each time.      *)

ResumedAgain ==
    /\ Running
    /\ is_some(app.window)
    /\ \E startup \in StartupOutcomes : Becomes(resumed(Here, startup))
    /\ UNCHANGED key_state

NextResume ==
    \/ Next
    \/ ResumedAgain

SpecResume == Init /\ [][NextResume]_vars

----------------------------------------------------------------------------
(* The controller on its own: update applied to cameras at chosen          *)
(* distances from the target, among them exactly speed (12-16-20) and      *)
(* twice speed.                                                            *)

CtlEyes ==
    {<<0, 100, 130>>, <<0, 12, 16>>, <<0, 0, 20>>, <<0, 0, 21>>, <<0, 0, 19>>,
     <<0, 24, 32>>, <<30, 0, 40>>, <<0, 0, 1>>}

Flags == [{"forward", "backward", "left", "right"} -> BOOLEAN]

InitCtl ==
    /\ \E start \in CtlEyes, controller \in Flags :
        /\ app = [resumed(World(App_init, FALSE, FALSE, FALSE), "Ok").app EXCEPT
                     !.camera = Some([unwrap(@) EXCEPT !.eye = Eye(start)]),
                     !.camera_controller = Some(controller)]
        /\ key_state = [k \in MovementKeys |-> controller[FlagOf(k)]]
    /\ exit_requested = FALSE
    /\ redraw_requested = FALSE
    /\ panicked = FALSE
    /\ fx = NoFx

NextCtl ==
    \/ KeyboardInput
    \/ RedrawRequested

SpecCtl == InitCtl /\ [][NextCtl]_vars

----------------------------------------------------------------------------
(* Properties *)

(* The last callback handled this event of the application's window. *)
Handled(f, type) == f.own /\ f.event.type = type

(* C1: after any sequence of resize events and frame updates, the camera's *)
(* aspect equals width / height of the current surface configuration.      *)
C1_AspectFollowsSurface ==
    (is_some(app.camera) /\ is_some(app.config)) =>
        SameAspect(unwrap(app.camera).aspect, Aspect(unwrap(app.config)))

(* C2: a resize with width > 0 and height > 0 stores the new size in the   *)
(* window and in the surface configuration and configures the surface with *)
(* it; a resize with width = 0 or height = 0 changes nothing of the        *)
(* application and configures nothing.                                     *)
C2_ResizeEffect ==
    [][Handled(fx', "Resized") =>
        LET new_size == fx'.event.size
            config == Some([width |-> new_size[1], height |-> new_size[2]])
        IN  IF new_size[1] > 0 /\ new_size[2] > 0
            THEN /\ unwrap(app'.window).size = new_size
                 /\ app'.config = config
                 /\ unwrap(app'.surface).configured = config
                 /\ fx'.configured = config
            ELSE /\ app' = app
                 /\ fx'.configured = None]_vars

(* C2 witness: a resize to a new positive size was stored and configured. *)
C2_Witness ==
    /\ Handled(fx, "Resized")
    /\ fx.event.size = <<600, 600>>
    /\ unwrap(app.window).size = <<600, 600>>
    /\ fx.configured = Some([width |-> 600, height |-> 600])

(* C3: when render fails with Lost or Outdated, the host runs resize with   *)
(* the stored window size, which configures the surface with that size; it *)
(* does not exit, nothing panics, and a redraw can be delivered again and  *)
(* can render.                                                             *)
C3_LostOutdatedRecovers ==
    [][(Handled(fx', "RedrawRequested") /\ fx'.render \in {"Lost", "Outdated"}) =>
        LET size == unwrap(app.window).size
            config == Some([width |-> size[1], height |-> size[2]])
        IN  /\ fx'.configured = config
            /\ unwrap(app'.surface).configured = config
            /\ app'.config = config
            /\ app'.window = app.window
            /\ ~fx'.exit /\ exit_requested' = exit_requested /\ ~panicked'
            /\ Delivering'
            /\ "Ok" \in TextureOutcomes(app')]_vars

(* C3 witness: a Lost failure after the window was resized to 600x600 was  *)
(* followed by a configure with 600x600.                                   *)
C3_Witness ==
    /\ Handled(fx, "RedrawRequested")
    /\ fx.render = "Lost"
    /\ unwrap(app.window).size = <<600, 600>>
    /\ fx.configured = Some([width |-> 600, height |-> 600])
    /\ ~exit_requested

C5_TimeoutSkipsFrame ==
    [][(Handled(fx', "RedrawRequested") /\ fx'.render = "Timeout") =>
        /\ fx'.drawn = None
        /\ fx'.configured = None
        /\ ~fx'.exit /\ exit_requested' = exit_requested /\ ~panicked'
        /\ app'.window = app.window
        /\ app'.config = app.config
        /\ app'.surface = app.surface
        /\ fx'.redraw /\ redraw_requested'
        /\ Delivering']_vars

(* C5 witness: a Timeout on a configured surface; the loop goes on with a  *)
(* redraw pending.                                                         *)
C5_Witness ==
    /\ Handled(fx, "RedrawRequested")
    /\ fx.render = "Timeout"
    /\ is_some(unwrap(app.surface).configured)
    /\ redraw_requested
    /\ ~exit_requested

(* C6: a handled RedrawRequested first lets the controller update the      *)
(* camera, then recomputes the uniform from that camera, then uploads the  *)
(* uniform; a draw, if one follows, reads a camera buffer holding the      *)
(* view-projection of the current camera.  The uniform changes only to the *)
(* view-projection of the current camera.                                  *)
C6_FrameOrder ==
    [][/\ (Handled(fx', "RedrawRequested") /\ ~panicked') =>
            LET camera == update_camera(unwrap(app.camera_controller),
                                        unwrap(app.camera))
                view_proj == build_view_projection_matrix(camera)
            IN  /\ app'.camera = Some(camera)
                /\ unwrap(app'.camera_uniform).view_proj = view_proj
                /\ unwrap(app'.camera_buffer).contents.view_proj = view_proj
       /\ is_some(fx'.drawn) =>
            /\ Handled(fx', "RedrawRequested")
            /\ unwrap(fx'.drawn).contents.view_proj
                   = build_view_projection_matrix(unwrap(app'.camera))
       /\ (is_some(app.camera_uniform) /\ app'.camera_uniform # app.camera_uniform) =>
            unwrap(app'.camera_uniform).view_proj
                = build_view_projection_matrix(unwrap(app'.camera))]_vars

(* C6 witness: a frame was drawn after the eye had moved toward the target *)
(* and around it.                                                          *)
C6_Witness ==
    /\ Handled(fx, "RedrawRequested")
    /\ is_some(fx.drawn)
    /\ unwrap(app.camera).eye.toward > 0
    /\ unwrap(app.camera).eye.orbit # << >>
    /\ unwrap(fx.drawn).contents.view_proj.eye = unwrap(app.camera).eye

(* C7: the controller consumes exactly the press and release events of the *)
(* movement keys of the application's window; every other such event       *)
(* reaches the host, so a close request or a pressed Escape requests exit, *)
(* a resize to a positive size configures the surface and a redraw request *)
(* requests the next redraw, whatever the controller's flags are.          *)
C7_UnconsumedReachHost ==
    (fx.own /\ is_some(app.window)) =>
        /\ fx.consumed <=>
               (fx.event.type = "KeyboardInput" /\ fx.event.key \in MovementKeys)
        /\ (\/ fx.event.type = "CloseRequested"
            \/ /\ fx.event.type = "KeyboardInput"
               /\ fx.event.key = "Escape"
               /\ fx.event.state = "Pressed") => (fx.exit /\ exit_requested)
        /\ (fx.event.type = "Resized" /\ resize_accepts(fx.event.size)) =>
               is_some(fx.configured)
        /\ fx.event.type = "RedrawRequested" => fx.redraw

(* C7 witness: Escape was pressed while movement flags were set, and exit  *)
(* was requested.                                                          *)
C7_Witness ==
    /\ fx.own
    /\ fx.event = KeyboardInputEv("Escape", "Pressed")
    /\ unwrap(app.camera_controller).forward
    /\ unwrap(app.camera_controller).left
    /\ exit_requested

(* The frame update moves the camera: the eye after update_camera differs  *)
(* from the eye before.                                                    *)
FrameMoves == app'.camera # app.camera

(* The held keys for which a frame leaves the eye where it is: no strafe   *)
(* key, and either forward alone within speed of the target (the clamp) or *)
(* forward and backward together outside it (the two moves cancel).        *)
FrameStands(held, camera) ==
    /\ ~held["Left"] /\ ~held["Right"]
    /\ held["Forward"]
    /\ held["Backward"] <=> ForwardLenGT(camera, Speed)

(* C8 as stated: each movement flag is true exactly when the most recent   *)
(* event for its key was a press, a frame update leaves the flags as they  *)
(* are, and every frame delivered while a key is held moves the camera     *)
(* (read for a key held alone, where no other key can offset its move).    *)
C8_HeldKeyAlwaysMoves ==
    [][/\ is_some(app'.camera_controller) =>
            \A k \in MovementKeys :
                unwrap(app'.camera_controller)[FlagOf(k)] = key_state'[k]
       /\ Handled(fx', "RedrawRequested") =>
            app'.camera_controller = app.camera_controller
       /\ (/\ Handled(fx', "RedrawRequested") /\ ~panicked'
           /\ \E k \in MovementKeys :
                /\ key_state[k]
                /\ \A j \in MovementKeys \ {k} : ~key_state[j]) => FrameMoves]_vars

(* C8 amended: each movement flag is true exactly when the most recent     *)
(* event for its key was a press, a frame update leaves the flags as they  *)
(* are, and a frame delivered while a key is held moves the camera except  *)
(* when the held keys are forward alone within speed of the target, or     *)
(* forward and backward alone with the target more than speed away.        *)
C8_FlagsPersist ==
    [][/\ is_some(app'.camera_controller) =>
            \A k \in MovementKeys :
                unwrap(app'.camera_controller)[FlagOf(k)] = key_state'[k]
       /\ Handled(fx', "RedrawRequested") =>
            app'.camera_controller = app.camera_controller
       /\ (/\ Handled(fx', "RedrawRequested") /\ ~panicked'
           /\ \E k \in MovementKeys : key_state[k]) =>
            (FrameMoves <=> ~FrameStands(key_state, unwrap(app.camera)))]_vars

(* C8 witness: forward is still held after the frames that brought the eye *)
(* within speed of the target, where further frames leave it.              *)
C8_Witness ==
    /\ Handled(fx, "RedrawRequested")
    /\ key_state["Forward"] /\ ~key_state["Backward"]
    /\ unwrap(app.camera_controller).forward
    /\ ~ForwardLenGT(unwrap(app.camera), Speed)

(* Lengths the distance to the target is compared with. *)
Lengths == 0 .. 200

ForwardOnly(controller) ==
    /\ controller.forward
    /\ ~controller.backward /\ ~controller.left /\ ~controller.right

(* C9: in an update with only the forward flag set, the eye is not moved   *)
(* if forward_len <= speed; if forward_len > speed it keeps its direction  *)
(* and its distance to the target decreases by exactly speed; in both      *)
(* cases it stays at a positive distance on its side of the target.        *)
C9_ForwardClamp ==
    [][(/\ Handled(fx', "RedrawRequested") /\ ~panicked'
        /\ ForwardOnly(unwrap(app.camera_controller))) =>
        LET before == unwrap(app.camera)
            after == unwrap(app'.camera)
        IN  /\ IF ForwardLenGT(before, Speed)
               THEN /\ after.eye.orbit = before.eye.orbit
                    /\ after.eye.start = before.eye.start
                    /\ \A c \in Lengths :
                        /\ ForwardLenGT(after, c) <=> ForwardLenGT(before, c + Speed)
                        /\ ForwardLenEQ(after, c) <=> ForwardLenEQ(before, c + Speed)
               ELSE after = before
            /\ ForwardLenGT(before, 0) => ForwardLenGT(after, 0)]_vars

(* C9 witness: a forward-only update was applied to an eye exactly speed   *)
(* away from the target.                                                   *)
C9_Witness ==
    /\ Handled(fx, "RedrawRequested") /\ ~panicked
    /\ ForwardOnly(unwrap(app.camera_controller))
    /\ ForwardLenEQ(unwrap(app.camera), Speed)
    /\ unwrap(app.camera).eye.start = <<0, 24, 32>>
    /\ unwrap(app.camera).eye.toward = 1

(* C10: from the initial camera, in every state the eye is at a positive   *)
(* distance from the target on the side it started on (so eye # target),   *)
(* and so is the eye every view-projection was computed from.              *)
C10_EyeNeverOnTarget ==
    is_some(app.camera) =>
        /\ ForwardLenGT(unwrap(app.camera), 0)
        /\ ForwardLenGT(unwrap(app.camera_uniform).view_proj, 0)
        /\ ForwardLenGT(unwrap(app.camera_buffer).contents.view_proj, 0)

(* C10 witness: forward is held, the eye has come within speed of the      *)
(* target after strafing and a frame was drawn there.                      *)
C10_Witness ==
    /\ Handled(fx, "RedrawRequested")
    /\ is_some(fx.drawn)
    /\ unwrap(app.camera_controller).forward
    /\ ~ForwardLenGT(unwrap(app.camera), Speed)
    /\ unwrap(app.camera).eye.orbit # << >>

Fields ==
    {"surface", "config", "camera", "camera_uniform", "camera_buffer",
     "camera_controller", "resources", "window"}

AllNone(a) == \A f \in Fields : a[f] = None
AllSome(a) == \A f \in Fields : is_some(a[f])

(* C11: every optional field is None after App::init and Some after the    *)
(* first resumed that starts the application (a failed startup is fatal);  *)
(* no field returns to None; a later resumed does not initialize the       *)
(* resources (camera, controller flags, window, surface, configuration) a  *)
(* second time; and no callback unwraps a field that is None: a callback   *)
(* panics only in a failed startup or on a fatal error raised by wgpu.     *)
C11_InitializedOnce ==
    [][/\ AllNone(app) \/ AllSome(app)
       /\ AllNone(app') \/ AllSome(app')
       /\ (fx'.event = ResumedEv /\ ~panicked') => AllSome(app')
       /\ AllSome(app) => AllSome(app')
       /\ (AllSome(app) /\ fx'.event = ResumedEv) => app' = app
       /\ panicked' => (fx'.render = "Panic" \/ fx'.event = ResumedEv)]_vars

(* C12: once the window exists, the stored window size equals the width   *)
(* and height of the surface configuration and both are > 0, whatever      *)
(* resize events (zero-sized ones included) and Lost/Outdated recoveries   *)
(* came before; so a recovery always configures the surface, with that     *)
(* size.                                                                   *)
C12_SizeMatchesConfig ==
    is_some(app.window) =>
        LET size == unwrap(app.window).size
            config == unwrap(app.config)
        IN  /\ size = <<config.width, config.height>>
            /\ size[1] > 0 /\ size[2] > 0
            /\ (Handled(fx, "RedrawRequested") /\ fx.render \in {"Lost", "Outdated"}) =>
                   /\ fx.configured = app.config
                   /\ unwrap(app.surface).configured = app.config

(* C12 witness: a zero-sized resize arrived after the window had been      *)
(* resized to 600x600; stored size, configuration and configured surface   *)
(* are all still 600x600.                                                  *)
C12_Witness ==
    /\ Handled(fx, "Resized")
    /\ fx.event.size = <<0, 600>>
    /\ unwrap(app.window).size = <<600, 600>>
    /\ unwrap(app.config) = [width |-> 600, height |-> 600]
    /\ unwrap(app.surface).configured = app.config

============================================================================
